---------------------------- MODULE Spec2Model ----------------------------
(***************************************************************************)
(* A model of the document chatbot: the LLM transport with its retry       *)
(* loops (llm_api_utils.py), the clarification classifier and the response *)
(* generator (llm_manager.py), the HANA vector index operations            *)
(* (rag_engine.py), the chat history file (chat_history_manager.py) and    *)
(* the Streamlit callbacks and chat turn (app.py).                         *)
(***************************************************************************)
EXTENDS Integers, Sequences, FiniteSets, TLC

VARIABLES
    current_chat_id,   \* st.session_state.current_chat_id
    vector_store,      \* st.session_state.vector_store: "None" or "HanaDB"
    messages,          \* st.session_state.messages
    hana,              \* the rows of the HANA embeddings table
    history_file,      \* chat_history.json: chat_id -> its messages
    turns,             \* number of questions asked so far
    last,              \* what the last run of a handler of app.py did
    deleted,           \* history: the chats whose context delete_context was
                       \* called for, with no document embedded for them since
    call               \* SpecTransport: one call of a function of
                       \* llm_api_utils.py or llm_manager.py

vars == <<current_chat_id, vector_store, messages, hana, history_file,
          turns, last, deleted, call>>

-----------------------------------------------------------------------------
(* Bounds of the model.                                                    *)

\* Lines of one streamed HTTP response body.
MaxLines == 1

\* Responses the endpoint is scripted to give to consecutive requests.
MaxResponses == 3

\* Items of the "questions" value of a classifier answer.
MaxQuestions == 5

\* Questions asked in one run of the application.
MaxTurns == 2

\* Chunks the text splitter makes of one document.
MaxChunks == 1

\* Messages of one chat in the history file before a save_message call.
MaxSaved == 2

-----------------------------------------------------------------------------
(* Small helpers.                                                          *)

RECURSIVE Pow2(_)
Pow2(n) == IF n <= 0 THEN 1 ELSE 2 * Pow2(n - 1)

RECURSIVE SumSeq(_)
SumSeq(s) == IF s = <<>> THEN 0 ELSE Head(s) + SumSeq(Tail(s))

\* The set of sequences over S of length lo..hi.
SeqsOf(S, lo, hi) == UNION {[1..n -> S] : n \in lo..hi}

\* The i-th scripted response; the endpoint keeps answering as it last did.
Outcome(script, i) == IF i <= Len(script) THEN script[i] ELSE script[Len(script)]

-----------------------------------------------------------------------------
(* llm_api_utils.py: _call_llm_streaming                                   *)

\* A loop that allows one attempt more.
max_retries_one_more == 3 + 1

max_retries == 3

\* A backoff that starts at two units: 2 ** (attempt + 1).
Backoff_from_two(attempt) == Pow2(attempt + 1)

\* time.sleep(2 ** attempt): the delay slept after a failed attempt.
Backoff(attempt) == Pow2(attempt)

\* The fragment yielded on the final failure (the user-visible error notice).
\* Content fragments are 1, 2, ... (their position in the model's response).
ErrorNotice == 0

\* What one line of response.iter_lines() is to the loop body:
\*   "skipped"    empty, not a "data: " line, undecodable JSON, empty choices
\*                or a delta without content: nothing is yielded
\*   "done"       the line "data: [DONE]"
\*   "content"    a chunk with delta.content
\*   "attr_error" a chunk that is JSON but no object of the expected shape:
\*                .get raises AttributeError, which no handler catches
LineKinds == {"content", "skipped", "done", "attr_error"}

\* One response to a streaming request: its HTTP status ("neterr": no
\* response at all, a connection error or timeout), its lines, and whether
\* the connection breaks after them ("broken") or the body ends ("eof").
StreamOutcomes ==
    {[status |-> s, lines |-> <<>>, end |-> "eof"] : s \in {"4xx", "5xx", "neterr"}}
    \cup {[status |-> "200", lines |-> l, end |-> e] :
             l \in SeqsOf(LineKinds, 0, MaxLines), e \in {"eof", "broken"}}

\* The responses that end in a transport failure (a RequestException).
StreamFailures ==
    {o \in StreamOutcomes :
        \/ o.status # "200"
        \/ /\ o.end = "broken"
           /\ \A i \in 1..Len(o.lines) : o.lines[i] \in {"content", "skipped"}}

StreamScripts ==
    {Append(p, o) : p \in SeqsOf(StreamFailures, 0, MaxResponses - 1),
                    o \in StreamOutcomes}

\* The for-loop over response.iter_lines(), from line i on, with k fragments
\* yielded so far in this attempt: the fragments yielded and how it ends.
RECURSIVE IterLines(_, _, _)
IterLines(o, i, k) ==
    IF i > Len(o.lines)
    THEN [yielded |-> <<>>,
          fin |-> IF o.end = "broken" THEN "RequestException" ELSE "return"]
    ELSE CASE o.lines[i] = "skipped" -> IterLines(o, i + 1, k)
           [] o.lines[i] = "done" -> [yielded |-> <<>>, fin |-> "return"]
           [] o.lines[i] = "attr_error" -> [yielded |-> <<>>, fin |-> "AttributeError"]
           [] OTHER ->
                LET rest == IterLines(o, i + 1, k + 1)
                IN  [yielded |-> <<k + 1>> \o rest.yielded, fin |-> rest.fin]

\* The body of the try block for one attempt.
StreamAttempt(o) ==
    IF o.status # "200"
    THEN [yielded |-> <<>>, fin |-> "RequestException"]
    ELSE IterLines(o, 1, 0)

\* The retry loop from `attempt` on.
RECURSIVE StreamLoop(_, _)
StreamLoop(script, attempt) ==
    IF attempt >= max_retries
    THEN [requests |-> 0, sleeps |-> <<>>, yielded |-> <<>>, exc |-> "none"]
    ELSE LET a == StreamAttempt(Outcome(script, attempt + 1))
         IN  CASE a.fin = "return" ->
                    [requests |-> 1, sleeps |-> <<>>, yielded |-> a.yielded,
                     exc |-> "none"]
               [] a.fin = "AttributeError" ->
                    [requests |-> 1, sleeps |-> <<>>, yielded |-> a.yielded,
                     exc |-> "AttributeError"]
               [] OTHER ->
                    IF attempt < max_retries - 1
                    THEN LET rest == StreamLoop(script, attempt + 1)
                         IN  [requests |-> 1 + rest.requests,
                              sleeps |-> <<Backoff(attempt)>> \o rest.sleeps,
                              yielded |-> a.yielded \o rest.yielded,
                              exc |-> rest.exc]
                    ELSE [requests |-> 1, sleeps |-> <<>>,
                          yielded |-> a.yielded \o <<ErrorNotice>>,
                          exc |-> "none"]

_call_llm_streaming(script) == StreamLoop(script, 0)

-----------------------------------------------------------------------------
(* llm_api_utils.py: _call_llm_non_streaming_json                          *)

json_max_retries == 3

\* The "questions" value of a classifier answer: its JSON type, its size
\* (items of a list, characters of a string, the value of a number) and,
\* for a list, whether some item is an empty text.
NoQuestions == [type |-> "absent", len |-> 0, blank |-> FALSE]

QuestionsValues ==
    {NoQuestions, [type |-> "null", len |-> 0, blank |-> FALSE]}
    \cup {[type |-> "list", len |-> 0, blank |-> FALSE]}
    \cup {[type |-> "list", len |-> n, blank |-> b] :
             n \in 1..MaxQuestions, b \in BOOLEAN}
    \cup {[type |-> t, len |-> n, blank |-> FALSE] :
             t \in {"string", "number"}, n \in 0..1}

\* The "clarification_needed" value: absent, a boolean, or another JSON
\* value that Python takes as true ("yes", 1) or as false (null, 0, "").
NeededValues == {"absent", "true", "false", "truthy", "falsy"}

\* The message content of a completion, as json.loads will see it:
\*   "empty"   the empty string          "invalid" text that is no JSON
\*   "nonstr"  not a string at all       "array", "scalar", "null": JSON
\*   that is no object                   "object" a JSON object
Contents ==
    {[json |-> j, needed |-> "absent", questions |-> NoQuestions] :
        j \in {"empty", "invalid", "nonstr", "array", "scalar", "null"}}
    \cup {[json |-> "object", needed |-> n, questions |-> q] :
             n \in NeededValues, q \in QuestionsValues}

NoContent == [json |-> "empty", needed |-> "absent", questions |-> NoQuestions]

\* One response to a non-streaming request: its HTTP status and its body:
\*   "notjson"   response.json() fails        "nochoices" choices is []
\*   "nondict"   the payload, the choice or the message is no object
\*   "nocontent" the message has no content   "content"   it has
JsonOutcomes ==
    {[status |-> s, body |-> "nocontent", content |-> NoContent] :
        s \in {"4xx", "5xx", "neterr"}}
    \cup {[status |-> "200", body |-> b, content |-> NoContent] :
             b \in {"notjson", "nochoices", "nondict", "nocontent"}}
    \cup {[status |-> "200", body |-> "content", content |-> c] : c \in Contents}

\* The responses that are a failed request or an unusable payload.
JsonFailures ==
    {o \in JsonOutcomes : o.status # "200" \/ o.body \in {"notjson", "nochoices"}}

JsonScripts ==
    {Append(p, o) : p \in SeqsOf(JsonFailures, 0, MaxResponses - 1),
                    o \in JsonOutcomes}

\* The body of the try block for one attempt: what it returns or raises.
JsonAttempt(o) ==
    CASE o.status # "200" -> [fin |-> "RequestException", ret |-> "None"]
      [] o.body = "notjson" -> [fin |-> "JSONDecodeError", ret |-> "None"]
      [] o.body = "nochoices" -> [fin |-> "IndexError", ret |-> "None"]
      [] o.body = "nondict" -> [fin |-> "AttributeError", ret |-> "None"]
      [] o.body = "nocontent" -> [fin |-> "return", ret |-> "None"]
      [] OTHER -> [fin |-> "return", ret |-> "content"]

RECURSIVE JsonLoop(_, _)
JsonLoop(script, attempt) ==
    IF attempt >= json_max_retries
    THEN [requests |-> 0, sleeps |-> <<>>, exc |-> "none", ret |-> "None",
          content |-> NoContent]
    ELSE LET o == Outcome(script, attempt + 1)
             a == JsonAttempt(o)
         IN  CASE a.fin = "return" ->
                    [requests |-> 1, sleeps |-> <<>>, exc |-> "none",
                     ret |-> a.ret,
                     content |-> IF a.ret = "content" THEN o.content ELSE NoContent]
               [] a.fin \in {"RequestException", "JSONDecodeError", "IndexError"} ->
                    IF attempt < json_max_retries - 1
                    THEN LET rest == JsonLoop(script, attempt + 1)
                         IN  [requests |-> 1 + rest.requests,
                              sleeps |-> <<Backoff(attempt)>> \o rest.sleeps,
                              exc |-> rest.exc, ret |-> rest.ret,
                              content |-> rest.content]
                    ELSE [requests |-> 1, sleeps |-> <<>>, exc |-> "none",
                          ret |-> "None", content |-> NoContent]
               [] OTHER ->
                    [requests |-> 1, sleeps |-> <<>>, exc |-> a.fin,
                     ret |-> "None", content |-> NoContent]

_call_llm_non_streaming_json(script) == JsonLoop(script, 0)

-----------------------------------------------------------------------------
(* llm_manager.py: generate_clarifying_questions                           *)

\* Python's truth value of response_json.get("clarification_needed").
TruthyNeeded(n) == n \in {"true", "truthy"}

\* Python's truth value of response_json.get("questions").
TruthyQuestions(q) == q.type \in {"list", "string", "number"} /\ q.len > 0

\* `if response_str:` -- None and the empty string are false.
TruthyResponse(r) == r.ret = "content" /\ r.content.json # "empty"

\* The try block around json.loads: what it returns or raises.  "fall" is
\* falling out of the if to the final `return None`.
ParseClarification(c) ==
    CASE c.json = "nonstr" -> [fin |-> "TypeError", q |-> NoQuestions]
      [] c.json = "invalid" -> [fin |-> "JSONDecodeError", q |-> NoQuestions]
      [] c.json \in {"array", "scalar", "null"} ->
            [fin |-> "AttributeError", q |-> NoQuestions]
      [] OTHER ->
            IF TruthyNeeded(c.needed) /\ TruthyQuestions(c.questions)
            THEN [fin |-> "return", q |-> c.questions]
            ELSE [fin |-> "fall", q |-> NoQuestions]

\* The result: exc is the exception that escapes ("none" if none does), ret
\* is "None" or "questions", and q is the value returned in the latter case.
generate_clarifying_questions(document_is_loaded, script) ==
    LET r == _call_llm_non_streaming_json(script)
        base == [document_is_loaded |-> document_is_loaded,
                 requests |-> r.requests, sleeps |-> r.sleeps]
        none == base @@ [exc |-> "none", ret |-> "None", q |-> NoQuestions]
    IN  IF r.exc # "none"
        THEN base @@ [exc |-> r.exc, ret |-> "None", q |-> NoQuestions]
        ELSE IF ~TruthyResponse(r)
        THEN none
        ELSE LET p == ParseClarification(r.content)
             IN  CASE p.fin = "return" ->
                        base @@ [exc |-> "none", ret |-> "questions", q |-> p.q]
                   [] p.fin \in {"JSONDecodeError", "KeyError", "TypeError", "fall"} ->
                        none
                   [] OTHER ->
                        base @@ [exc |-> p.fin, ret |-> "None", q |-> NoQuestions]

-----------------------------------------------------------------------------
(* llm_manager.py: generate_llm_response                                   *)

\* A chat message.  body is a sequence: <<p>> for the user's question p,
\* the yielded fragments for an answer, <<n>> for a clarification with n
\* suggestion lines, and the context passages for a system message.
Message(role, kind, body) == [role |-> role, kind |-> kind, body |-> body]

\* The system message: the persona, and the context block with the grounding
\* instructions when `context` is true for Python (neither None nor "").
SystemMessage(context) ==
    IF context # <<>>
    THEN Message("system", "grounded", context)
    ELSE Message("system", "ungrounded", <<>>)

\* A variant that builds the messages in the caller's list:
\* history.insert(0, system); history.append(question); messages = history.
generate_llm_response_in_place(history, prompt, context, script) ==
    LET msgs == Append(<<SystemMessage(context)>> \o history,
                       Message("user", "question", <<prompt>>))
    IN  [messages |-> msgs, history |-> msgs] @@ _call_llm_streaming(script)

\* The generator, run to its end: the messages handed to the transport, the
\* caller's history list afterwards (`[system] + history` is a new list, and
\* the question is appended to that one), and what _call_llm_streaming did
\* and yielded.
generate_llm_response(history, prompt, context, script) ==
    LET msgs == Append(<<SystemMessage(context)>> \o history,
                       Message("user", "question", <<prompt>>))
    IN  [messages |-> msgs, history |-> history] @@ _call_llm_streaming(script)

-----------------------------------------------------------------------------
(* rag_engine.py and llm_manager.py: the vector index                      *)

\* An uploaded file: its name is stem.ext.
Files == {[stem |-> "a", ext |-> "pdf"], [stem |-> "b", ext |-> "txt"],
          [stem |-> "c", ext |-> "exe"]}

\* The number of chunks text_splitter.split_documents makes of a file.
ChunksOf(file) == IF file.stem = "a" THEN 1 ELSE MaxChunks

supported_types == {"pdf", "txt", "docx", "odt"}

loader_map == {"pdf", "txt", "docx", "odt"}

top_k == 3

\* What loader.load() does with the file: it returns documents ("docs"),
\* returns none ("empty") or raises ("error").
LoadOutcomes == {"docs", "empty", "error"}

\* The metadata of a chunk: chunk.metadata = {"chat_id": ..., "document_name": ...}
ChunkMetadata(chat_id, file) == [chat_id |-> chat_id, document_name |-> file.stem]

\* A row of the embeddings table: the chunk's metadata and its text.  The
\* text of chunk i is named by the upload it comes from: the chat the file
\* was uploaded in, the file and i.
Chunk(chat_id, file, i) ==
    [metadata |-> ChunkMetadata(chat_id, file),
     page_content |-> [uploaded_in |-> chat_id, document |-> file.stem, chunk |-> i]]

\* Returns the handle ("HanaDB") or None, and the table's rows afterwards.
\* add_ok is whether embedding and vector_store.add_documents succeed.
process_and_embed_document(rows, file, file_type, chat_id, load, add_ok) ==
    IF file_type \notin loader_map \/ load # "docs" \/ ~add_ok
    THEN [ret |-> "None", rows |-> rows, added |-> FALSE]
    ELSE [ret |-> "HanaDB",
          rows |-> rows \cup {Chunk(chat_id, file, i) : i \in 1..ChunksOf(file)},
          added |-> TRUE]

process_document(rows, file, file_type, chat_id, load, add_ok) ==
    IF file_type \in supported_types
    THEN process_and_embed_document(rows, file, file_type, chat_id, load, add_ok)
    ELSE [ret |-> "None", rows |-> rows, added |-> FALSE]

\* vector_store.delete(filter={"chat_id": chat_id}); when it raises, the
\* exception is turned into a warning and the rows stay.
delete_hana_context(rows, chat_id, delete_ok) ==
    IF delete_ok THEN {r \in rows : r.metadata.chat_id # chat_id} ELSE rows

delete_context(rows, chat_id, delete_ok) == delete_hana_context(rows, chat_id, delete_ok)

\* A retriever without the chat_id filter: search_kwargs = {"k": top_k}.
RetrieverFilter_unscoped(rows, chat_id) == rows

\* search_kwargs = {"k": top_k, "filter": {"chat_id": chat_id}}
RetrieverFilter(rows, chat_id) == {r \in rows : r.metadata.chat_id = chat_id}

Min(a, b) == IF a <= b THEN a ELSE b

\* The rankings a similarity search may return: the k most similar of the
\* matching rows (all of them if there are fewer), most similar first.
SimilaritySearch(matching, k) ==
    LET m == Min(k, Cardinality(matching))
    IN  {s \in [1..m -> matching] : \A i, j \in 1..m : i # j => s[i] # s[j]}

\* "\n---\n".join([doc.page_content for doc in relevant_docs])
JoinPageContents(docs) == [i \in 1..Len(docs) |-> docs[i].page_content]

\* A variant whose handler does not catch what the chain raises.
get_conversational_context_raising(store, rows, chat_id, k, fails) ==
    IF store = "None"
    THEN {[context |-> <<>>, exc |-> "none"]}
    ELSE IF fails
    THEN {[context |-> <<>>, exc |-> "Exception"]}
    ELSE {[context |-> JoinPageContents(s), exc |-> "none"] :
             s \in SimilaritySearch(RetrieverFilter(rows, chat_id), k)}

\* The possible results: the context returned and the exception raised
\* ("none": the function returns).  `fails` is whether building the chain,
\* the rewriting model call or the index query raises.
get_conversational_context(store, rows, chat_id, k, fails) ==
    IF store = "None"
    THEN {[context |-> <<>>, exc |-> "none"]}
    ELSE IF fails
    THEN {[context |-> <<>>, exc |-> "none"]}
    ELSE {[context |-> JoinPageContents(s), exc |-> "none"] :
             s \in SimilaritySearch(RetrieverFilter(rows, chat_id), k)}

-----------------------------------------------------------------------------
(* chat_history_manager.py: the history file                               *)

\* The file's data maps each chat_id to that chat's messages; NoData is {}.
NoData == <<>>

\* How one read-modify-write of the file goes: whether the file is read and
\* parsed (load), and whether it is written ("ok"), cannot be opened for
\* writing ("unwritten") or is cut off while being written ("truncated").
IoOutcomes == [load : BOOLEAN, save : {"ok", "unwritten", "truncated"}]

\* Returns {} when the file is missing, unreadable or unparseable.
_load_all_history_data(file, load_ok) == IF load_ok THEN file ELSE NoData

\* The file afterwards.  A truncated file no longer parses: it reads as {}.
_save_all_history_data(file, data, save) ==
    CASE save = "ok" -> data
      [] save = "unwritten" -> file
      [] OTHER -> NoData

load_chat_history(file, chat_id, load_ok) ==
    LET data == _load_all_history_data(file, load_ok)
    IN  IF chat_id \in DOMAIN data THEN data[chat_id] ELSE <<>>

save_message(file, chat_id, message, io) ==
    LET data == _load_all_history_data(file, io.load)
        known == IF chat_id \in DOMAIN data THEN data ELSE data @@ (chat_id :> <<>>)
    IN  _save_all_history_data(
            file, [known EXCEPT ![chat_id] = Append(@, message)], io.save)

create_new_chat(file, chat_id, io) ==
    LET data == _load_all_history_data(file, io.load)
    IN  _save_all_history_data(
            file, (chat_id :> <<>>) @@ data, io.save)

-----------------------------------------------------------------------------
(* app.py: the callbacks and the chat_input handler                        *)

\* The questions a user may type.
Prompts == {1}

\* st.session_state.file_uploader_widget when the uploader was cleared.
NoFile == [stem |-> "", ext |-> ""]

\* The chat ids (uuids) create_new_chat can draw.
ChatIds == {1, 2}

\* In a turn of the application the endpoint answers every request of one
\* call the same way: with one fragment and [DONE], with HTTP 503, or with
\* a chunk that is no object; and a "questions" value has at most one item.
AppStreamScripts ==
    {<<[status |-> "200", lines |-> <<"content">>, end |-> "eof"]>>,
     <<[status |-> "5xx", lines |-> <<>>, end |-> "eof"]>>,
     <<[status |-> "200", lines |-> <<"attr_error">>, end |-> "eof"]>>}

AppJsonScripts ==
    {<<o>> : o \in {x \in JsonOutcomes : x.content.questions.len <= 1}}

\* What the handler reads of the classifier's result.
Verdict(r) == [exc |-> r.exc, ret |-> r.ret, q |-> r.q,
               document_is_loaded |-> r.document_is_loaded]

\* suggestions = generate_clarifying_questions(prompt, chat_history_for_analysis):
\* document_is_loaded is left at its default, False.
AppVerdicts ==
    {Verdict(generate_clarifying_questions(FALSE, s)) : s \in AppJsonScripts}

\* switch_chat_callback
switch_chat_callback(file, chat_id, load_ok) ==
    [current_chat_id |-> chat_id,
     messages |-> load_chat_history(file, chat_id, load_ok),
     vector_store |-> "None"]

\* A variant that leaves st.session_state.vector_store as it is when the
\* uploader is cleared.
document_upload_callback_keeps_store(store, rows, chat_id, file, delete_ok, load, add_ok) ==
    IF file = NoFile
    THEN [vector_store |-> store, rows |-> delete_context(rows, chat_id, delete_ok),
          deletes |-> 1, adds |-> 0, added |-> FALSE, rejected |-> FALSE]
    ELSE IF file.ext \notin supported_types
    THEN [vector_store |-> store, rows |-> rows,
          deletes |-> 0, adds |-> 0, added |-> FALSE, rejected |-> TRUE]
    ELSE LET rows1 == delete_context(rows, chat_id, delete_ok)
             r == process_document(rows1, file, file.ext, chat_id, load, add_ok)
         IN  [vector_store |-> r.ret, rows |-> r.rows,
              deletes |-> 1, adds |-> IF load = "docs" THEN 1 ELSE 0,
              added |-> r.added, rejected |-> FALSE]

\* document_upload_callback: the vector store bound afterwards, the table's
\* rows, the index operations made and whether a document was embedded.
document_upload_callback(store, rows, chat_id, file, delete_ok, load, add_ok) ==
    IF file = NoFile
    THEN [vector_store |-> "None", rows |-> delete_context(rows, chat_id, delete_ok),
          deletes |-> 1, adds |-> 0, added |-> FALSE, rejected |-> FALSE]
    ELSE IF file.ext \notin supported_types
    THEN [vector_store |-> store, rows |-> rows,
          deletes |-> 0, adds |-> 0, added |-> FALSE, rejected |-> TRUE]
    ELSE LET rows1 == delete_context(rows, chat_id, delete_ok)
             r == process_document(rows1, file, file.ext, chat_id, load, add_ok)
         IN  [vector_store |-> r.ret, rows |-> r.rows,
              deletes |-> 1, adds |-> IF load = "docs" THEN 1 ELSE 0,
              added |-> r.added, rejected |-> FALSE]

\* for q in suggestions: a list or a string can be iterated, a number cannot.
Iterable(q) == q.type \in {"list", "string"}

\* The handler of a question: the messages in memory and the history file
\* afterwards, and the record of the run.  v is the classifier's verdict,
\* retr the result of get_conversational_context (used if it is called),
\* script what the endpoint answers to the streaming requests.
chat_input(msgs, file, store, chat_id, prompt, v, retr, script, io1, io2) ==
    LET user == Message("user", "question", <<prompt>>)
        m1 == Append(msgs, user)
        f1 == save_message(file, chat_id, user, io1)
        history == SubSeq(m1, 1, Len(m1) - 1)
        run == [op |-> "turn", chat |-> chat_id, vector_store |-> store,
                document_is_loaded |-> v.document_is_loaded,
                suggestions |-> v.ret, route |-> "none",
                retrieval_calls |-> 0, retrieval_failed |-> FALSE,
                context |-> <<>>, generation_calls |-> 0,
                system |-> "none", exc |-> "none", raised_by |-> "none"]
        aborted(r) == [messages |-> m1, history_file |-> f1, last |-> r]
        replied(m, r) == [messages |-> Append(m1, m),
                          history_file |-> save_message(f1, chat_id, m, io2),
                          last |-> r]
    IN  IF v.exc # "none"
        THEN aborted([run EXCEPT !.exc = v.exc,
                                 !.raised_by = "generate_clarifying_questions"])
        ELSE IF v.ret = "questions"
        THEN \* ROUTE A
             IF ~Iterable(v.q)
             THEN aborted([run EXCEPT !.route = "A", !.exc = "TypeError",
                                      !.raised_by = "chat_input"])
             ELSE replied(Message("assistant", "clarification", <<v.q.len>>),
                          [run EXCEPT !.route = "A"])
        ELSE \* ROUTE B
             LET called == store # "None"
                 runB == [run EXCEPT !.route = "B",
                                     !.retrieval_calls = IF called THEN 1 ELSE 0]
             IN  IF called /\ retr.exc # "none"
                 THEN aborted([runB EXCEPT !.exc = retr.exc,
                                           !.raised_by = "get_conversational_context"])
                 ELSE LET context == IF called THEN retr.context ELSE <<>>
                          gen == generate_llm_response(history, prompt, context, script)
                          runG == [runB EXCEPT !.context = context,
                                               !.generation_calls = 1,
                                               !.system = gen.messages[1].kind,
                                               !.exc = gen.exc,
                                               !.raised_by =
                                                   IF gen.exc = "none" THEN "none"
                                                   ELSE "generate_llm_response"]
                      IN  IF gen.exc # "none"
                          THEN aborted(runG)
                          ELSE replied(Message("assistant", "answer", gen.yielded), runG)

-----------------------------------------------------------------------------
(* The application: one action for each handler of app.py.                 *)

Init ==
    /\ current_chat_id = 1
    /\ vector_store = "None"
    /\ messages = <<>>
    /\ hana = {}
    /\ history_file = (1 :> <<>>)
    /\ turns = 0
    /\ last = [op |-> "start"]
    /\ deleted = {}
    /\ call = [fn |-> "idle"]

\* In a run of the application the history file is read and written without
\* failure.
AppIoOutcomes == {[load |-> TRUE, save |-> "ok"]}

\* A click on a chat of the sidebar.
SwitchChat ==
    \E c \in DOMAIN history_file, io \in AppIoOutcomes :
        LET r == switch_chat_callback(history_file, c, io.load)
        IN  /\ current_chat_id' = r.current_chat_id
            /\ messages' = r.messages
            /\ vector_store' = r.vector_store
            /\ last' = [op |-> "switch"]
            /\ UNCHANGED <<hana, history_file, turns, deleted, call>>

\* new_chat_callback: create_new_chat, then switch_chat_callback.
NewChat ==
    \E new_id \in ChatIds \ DOMAIN history_file, io \in AppIoOutcomes :
          LET file == create_new_chat(history_file, new_id, io)
              r == switch_chat_callback(file, new_id, io.load)
          IN  /\ history_file' = file
              /\ current_chat_id' = r.current_chat_id
              /\ messages' = r.messages
              /\ vector_store' = r.vector_store
              /\ last' = [op |-> "new_chat"]
              /\ UNCHANGED <<hana, turns, deleted, call>>

\* The state after document_upload_callback has run with result r on `file`,
\* of which loader.load() gives `load` if it is called.
Uploaded(r, file, load) ==
    /\ vector_store' = r.vector_store
    /\ hana' = r.rows
    /\ deleted' = IF r.added THEN deleted \ {current_chat_id}
                  ELSE IF r.deletes > 0 THEN deleted \cup {current_chat_id}
                  ELSE deleted
    /\ last' = [op |-> "upload", chat |-> current_chat_id,
                file_type |-> file.ext,
                content |-> IF file = NoFile \/ r.rejected THEN "unread" ELSE load,
                rejected |-> r.rejected, deletes |-> r.deletes, adds |-> r.adds]
    /\ UNCHANGED <<current_chat_id, messages, history_file, turns, call>>

\* document_upload_callback for a file put into the uploader.  The inputs
\* of the stages the handler does not reach are not enumerated.
DocumentUpload ==
    \E file \in Files :
        IF file.ext \notin supported_types
        THEN Uploaded(document_upload_callback(vector_store, hana, current_chat_id,
                                               file, TRUE, "empty", FALSE),
                      file, "empty")
        ELSE \E delete_ok \in BOOLEAN, load \in LoadOutcomes :
               \E add_ok \in IF load = "docs" THEN BOOLEAN ELSE {FALSE} :
                  Uploaded(document_upload_callback(vector_store, hana,
                                                    current_chat_id, file,
                                                    delete_ok, load, add_ok),
                           file, load)

\* document_upload_callback for the uploader being cleared.
UploaderCleared ==
    \E delete_ok \in BOOLEAN :
        Uploaded(document_upload_callback(vector_store, hana, current_chat_id,
                                          NoFile, delete_ok, "empty", FALSE),
                 NoFile, "empty")

\* The state after the chat_input handler has run with result r.
Asked(r, fails) ==
    /\ messages' = r.messages
    /\ history_file' = r.history_file
    /\ last' = [r.last EXCEPT !.retrieval_failed = fails]
    /\ turns' = turns + 1
    /\ UNCHANGED <<current_chat_id, vector_store, hana, deleted, call>>

NoRetrieval == [context |-> <<>>, exc |-> "none"]

\* A question typed into st.chat_input (llm_ready holds).  The inputs of the
\* stages the handler does not reach are not enumerated.
ChatInput ==
    /\ turns < MaxTurns
    /\ \E prompt \in Prompts, v \in AppVerdicts, io1 \in AppIoOutcomes,
          io2 \in AppIoOutcomes :
        IF v.exc # "none" \/ v.ret = "questions"
        THEN Asked(chat_input(messages, history_file, vector_store,
                              current_chat_id, prompt, v, NoRetrieval,
                              <<>>, io1, io2), FALSE)
        ELSE \E script \in AppStreamScripts,
                fails \in IF vector_store = "None" THEN {FALSE} ELSE BOOLEAN :
               \E retr \in get_conversational_context(
                              vector_store, hana, current_chat_id, top_k, fails) :
                  Asked(chat_input(messages, history_file, vector_store,
                                   current_chat_id, prompt, v, retr, script,
                                   io1, io2), fails)

Next == SwitchChat \/ NewChat \/ DocumentUpload \/ UploaderCleared \/ ChatInput

Spec == Init /\ [][Next]_vars

-----------------------------------------------------------------------------
(* The transport and the functions of llm_manager.py above it, each called *)
(* once with the endpoint scripted in every way within the bounds.         *)

AppVars == <<current_chat_id, vector_store, messages, hana, history_file,
             turns, last, deleted>>

\* The histories and contexts generate_llm_response is called with.
CallHistories ==
    {<<>>,
     <<Message("user", "question", <<1>>), Message("assistant", "answer", <<1>>)>>}

CallContexts == {<<>>, <<[uploaded_in |-> 1, document |-> "a", chunk |-> 1]>>}

\* The questions it is called with: one the history holds, and a new one.
CallPrompts == {1, 2}

CallLlmStreaming ==
    /\ call.fn = "idle"
    /\ \E script \in StreamScripts :
          call' = [fn |-> "_call_llm_streaming", script |-> script,
                   res |-> _call_llm_streaming(script)]
    /\ UNCHANGED AppVars

CallLlmNonStreamingJson ==
    /\ call.fn = "idle"
    /\ \E script \in JsonScripts :
          call' = [fn |-> "_call_llm_non_streaming_json", script |-> script,
                   res |-> _call_llm_non_streaming_json(script)]
    /\ UNCHANGED AppVars

GenerateLlmResponse ==
    /\ call.fn = "idle"
    /\ \E history \in CallHistories, prompt \in CallPrompts, context \in CallContexts,
          script \in StreamScripts :
          call' = [fn |-> "generate_llm_response", script |-> script,
                   history |-> history, prompt |-> prompt, context |-> context,
                   res |-> generate_llm_response(history, prompt, context, script)]
    /\ UNCHANGED AppVars

GenerateClarifyingQuestions ==
    /\ call.fn = "idle"
    /\ \E document_is_loaded \in BOOLEAN, script \in JsonScripts :
          call' = [fn |-> "generate_clarifying_questions", script |-> script,
                   res |-> generate_clarifying_questions(document_is_loaded, script)]
    /\ UNCHANGED AppVars

NextTransport ==
    \/ CallLlmStreaming
    \/ CallLlmNonStreamingJson
    \/ GenerateLlmResponse
    \/ GenerateClarifyingQuestions

SpecTransport == Init /\ [][NextTransport]_vars

-----------------------------------------------------------------------------
(* The history file under create_new_chat and save_message calls, each     *)
(* with the file read and written in every way of IoOutcomes.              *)

HistoryRest == <<current_chat_id, vector_store, messages, hana, turns, last,
                 deleted>>

\* The messages save_message is called with.
SavedMessages ==
    {Message("user", "question", <<1>>), Message("assistant", "answer", <<1>>)}

\* The chat ids handed out so far: a uuid is never drawn twice.
UsedIds == IF call.fn = "idle" THEN DOMAIN history_file ELSE call.used

\* data.get(chat_id)'s messages, [] for a chat the file does not hold.
LogOf(file, chat_id) == IF chat_id \in DOMAIN file THEN file[chat_id] ELSE <<>>

CreateNewChat ==
    /\ \E chat_id \in ChatIds \ UsedIds, io \in IoOutcomes :
          /\ history_file' = create_new_chat(history_file, chat_id, io)
          /\ call' = [fn |-> "create_new_chat", file |-> history_file,
                      chat_id |-> chat_id, io |-> io,
                      used |-> UsedIds \cup {chat_id}]
    /\ UNCHANGED HistoryRest

SaveMessage ==
    /\ \E chat_id \in UsedIds, message \in SavedMessages, io \in IoOutcomes :
          /\ Len(LogOf(history_file, chat_id)) < MaxSaved
          /\ history_file' = save_message(history_file, chat_id, message, io)
          /\ call' = [fn |-> "save_message", file |-> history_file,
                      chat_id |-> chat_id, message |-> message, io |-> io,
                      used |-> UsedIds]
    /\ UNCHANGED HistoryRest

NextHistory == CreateNewChat \/ SaveMessage

SpecHistory == Init /\ [][NextHistory]_vars

-----------------------------------------------------------------------------
(* Properties of the transport and of the functions above it               *)
(* (SpecTransport).                                                        *)

\* The first three responses of the script all end in a transport failure.
StreamFailsThrice(script) ==
    \A i \in 1..3 : Outcome(script, i) \in StreamFailures

JsonFailsThrice(script) ==
    \A i \in 1..3 : Outcome(script, i) \in JsonFailures

\* ... and none of them delivers any content first.
StreamFailsThriceBeforeContent(script) ==
    \A i \in 1..3 :
        LET o == Outcome(script, i)
        IN  /\ o \in StreamFailures
            /\ \A j \in 1..Len(o.lines) : o.lines[j] # "content"

\* The answer has the shape {"clarification_needed": boolean,
\* "questions": [...]}.
WellShaped(r) ==
    /\ r.exc = "none"
    /\ r.ret = "content"
    /\ r.content.json = "object"
    /\ r.content.needed \in {"true", "false"}
    /\ r.content.questions.type = "list"

\* C1 (as claimed): for every transport outcome no exception escapes
\* generate_clarifying_questions, and when the response is missing, is not
\* parseable JSON or is JSON of the wrong shape it returns None.
C1_FailsOpen ==
    call.fn = "generate_clarifying_questions" =>
        /\ call.res.exc = "none"
        /\ ~WellShaped(_call_llm_non_streaming_json(call.script)) =>
              call.res.ret = "None"

\* C5: when the streaming transport fails on all three attempts before
\* delivering any content, generate_llm_response makes exactly 3 requests,
\* yields exactly one fragment, the error notice, and ends.
C5_ThreeFailuresOneNotice ==
    (/\ call.fn = "generate_llm_response"
     /\ StreamFailsThriceBeforeContent(call.script)) =>
        /\ call.res.requests = 3
        /\ call.res.yielded = <<ErrorNotice>>
        /\ call.res.exc = "none"

\* C5 witness: HTTP 503 three times, and the one fragment is the notice.
C5_Witness ==
    /\ call.fn = "generate_llm_response"
    /\ call.script = [i \in 1..3 |-> [status |-> "5xx", lines |-> <<>>, end |-> "eof"]]
    /\ call.res.yielded = <<ErrorNotice>>
    /\ call.res.requests = 3

\* The last thing the call surfaces is the terminal error: the error notice
\* (streaming) or the missing result (JSON call).
SurfacesError ==
    IF call.fn = "_call_llm_streaming"
    THEN /\ call.res.yielded # <<>>
         /\ call.res.yielded[Len(call.res.yielded)] = ErrorNotice
    ELSE call.res.exc = "none" /\ call.res.ret = "None"

FailsThrice ==
    \/ call.fn = "_call_llm_streaming" /\ StreamFailsThrice(call.script)
    \/ call.fn = "_call_llm_non_streaming_json" /\ JsonFailsThrice(call.script)

\* C6 (as claimed): when the transport fails three times consecutively, the
\* delays slept double from 1 unit and sum to 1+2+4 = 7 units before the
\* terminal error is surfaced.
C6_BackoffSumsToSeven ==
    FailsThrice => SumSeq(call.res.sleeps) = 7 /\ SurfacesError

\* C6 (amended): when the transport fails three times consecutively, two
\* delays are slept, between the attempts: 1 unit, then 2 units, 3 units in
\* all; the terminal error follows the third failure without a delay.
C6_BackoffOneThenTwo ==
    FailsThrice =>
        /\ call.res.sleeps = <<1, 2>>
        /\ SumSeq(call.res.sleeps) = 3
        /\ call.res.requests = 3
        /\ SurfacesError

\* C6 witness: a JSON call whose three requests fail (timeout, 503, 503).
C6_Witness ==
    /\ call.fn = "_call_llm_non_streaming_json"
    /\ Len(call.script) = 3
    /\ call.script[1].status = "neterr"
    /\ call.script[2].status = "5xx"
    /\ call.script[3].status = "5xx"
    /\ call.res.sleeps = <<1, 2>>
    /\ call.res.ret = "None"

\* A failure that is not transient: HTTP 4xx, or (JSON call) a payload that
\* is not the expected JSON.
NonTransient(fn, o) ==
    \/ o.status = "4xx"
    \/ fn = "_call_llm_non_streaming_json" /\ o.status = "200"
          /\ o.body \in {"notjson", "nochoices"}

\* C7 (as claimed): a non-transient failure causes no second request and no
\* backoff sleep, and surfaces at once as the error chunk (streaming) or the
\* missing result (JSON call).
C7_NonTransientNotRetried ==
    (/\ call.fn \in {"_call_llm_streaming", "_call_llm_non_streaming_json"}
     /\ NonTransient(call.fn, call.script[1])) =>
        /\ call.res.requests = 1
        /\ call.res.sleeps = <<>>
        /\ SurfacesError

-----------------------------------------------------------------------------
(* Properties of the application (Spec).                                   *)

\* The rows of the table whose metadata names the chat.
RowsOf(chat_id) == {r \in hana : r.metadata.chat_id = chat_id}

\* C2: no passage that was indexed under another chat appears in the
\* context get_conversational_context returns for a chat.
C2_SessionIsolation ==
    last.op = "turn" =>
        \A i \in 1..Len(last.context) : last.context[i].uploaded_in = last.chat

\* C2 witness: a context was retrieved while the table held rows of
\* another chat.
C2_Witness ==
    /\ last.op = "turn"
    /\ last.context # <<>>
    /\ \E r \in hana : r.metadata.chat_id # last.chat

\* A history in which every user question is followed by exactly one
\* assistant message before the next user question.
QuestionThenReply(h) ==
    /\ Len(h) % 2 = 0
    /\ \A i \in 1..Len(h) :
          h[i].role = IF i % 2 = 1 THEN "user" ELSE "assistant"

\* C3 (as claimed): after every run of a handler, the history in memory and
\* the persisted history of every chat are user question, one assistant
\* message, user question, one assistant message, ...
C3_QuestionThenOneReply ==
    /\ QuestionThenReply(messages)
    /\ \A c \in DOMAIN history_file : QuestionThenReply(history_file[c])

\* C4 (as claimed): the table never holds passages of two different
\* documents for the same chat.
C4_OneDocumentPerChat ==
    \A c \in ChatIds :
        Cardinality({r.metadata.document_name : r \in RowsOf(c)}) <= 1

\* C8: once delete_context has been called for a chat and has returned, and
\* until a document is embedded for that chat again, the context of a turn
\* in that chat is empty.
C8_EmptyAfterDelete ==
    (last.op = "turn" /\ last.chat \in deleted) => last.context = <<>>

\* C8 witness: the delete had failed, so the chat's rows are still in the
\* table, and a turn of that chat reached generation with no context.
C8_Witness ==
    /\ last.op = "turn"
    /\ last.chat \in deleted
    /\ RowsOf(last.chat) # {}
    /\ last.generation_calls = 1
    /\ last.context = <<>>

\* C9: no exception of the retrieval escapes; when no vector store is bound,
\* the rewrite or the query fails, or no passage matches, the context is
\* empty and the same turn reaches generation with the ungrounded system
\* message.
C9_RetrievalDegrades ==
    (last.op = "turn" /\ last.route = "B") =>
        /\ last.raised_by # "get_conversational_context"
        /\ last.generation_calls = 1
        /\ (\/ last.retrieval_calls = 0
            \/ last.retrieval_failed
            \/ RowsOf(last.chat) = {}) =>
              last.context = <<>> /\ last.system = "ungrounded"

\* C9 witness: the chat has rows, the retrieval was called and failed, and
\* the turn went on to an ungrounded generation.
C9_Witness ==
    /\ last.op = "turn"
    /\ last.retrieval_calls = 1
    /\ last.retrieval_failed
    /\ RowsOf(last.chat) # {}
    /\ last.generation_calls = 1
    /\ last.system = "ungrounded"

\* C10 (as claimed): in a turn in which the classifier returns clarifying
\* questions, they become the assistant message and neither the retrieval
\* nor the generation is called.
C10_VagueQuestionRouting ==
    (last.op = "turn" /\ last.suggestions = "questions") =>
        /\ last.retrieval_calls = 0
        /\ last.generation_calls = 0
        /\ messages # <<>>
        /\ messages[Len(messages)].role = "assistant"
        /\ messages[Len(messages)].kind = "clarification"

\* The fragments of one model response in generation order, each once,
\* optionally ended by one error notice.
SingleResponse(y) ==
    \E n \in 0..Len(y) :
        /\ \A i \in 1..n : y[i] = i
        /\ \/ Len(y) = n
           \/ Len(y) = n + 1 /\ y[n + 1] = ErrorNotice

\* C14 (as claimed): for every run of generate_llm_response, including runs
\* in which the connection fails after fragments were delivered, the yielded
\* sequence is the fragments of a single model response in order, each at
\* most once, optionally ended by one error notice: the stream is never
\* restarted after fragments have been yielded.
C14_NeverRestarted ==
    call.fn = "generate_llm_response" => SingleResponse(call.res.yielded)

\* The positions of `m` that hold the message `x`.
Occurrences(m, x) ==
    {i \in 1..Len(m) : m[i].role = x.role /\ m[i].kind = x.kind /\ m[i].body = x.body}

\* C15: the messages handed to the streaming transport are one system
\* message, then the history in its order, then the current question as the
\* last, user, message (occurring once when the history does not hold it);
\* the system message holds the context and the grounding instructions if
\* and only if the context is non-empty; the caller's history is unmodified.
C15_InstructionAssembly ==
    call.fn = "generate_llm_response" =>
        LET m == call.res.messages
            question == Message("user", "question", <<call.prompt>>)
        IN  /\ Len(m) = Len(call.history) + 2
            /\ Cardinality({i \in 1..Len(m) : m[i].role = "system"}) = 1
            /\ m[1].role = "system"
            /\ SubSeq(m, 2, Len(m) - 1) = call.history
            /\ Len(m) \in Occurrences(m, question)
            /\ Occurrences(call.history, question) = {} =>
                  Cardinality(Occurrences(m, question)) = 1
            /\ call.context # <<>> <=>
                  (m[1].kind = "grounded" /\ m[1].body = call.context)
            /\ call.context = <<>> <=>
                  (m[1].kind = "ungrounded" /\ m[1].body = <<>>)
            /\ call.res.history = call.history

\* C15 witness: a call with a history of two messages, a new question and a
\* context, whose four messages start with the grounded system message.
C15_Witness ==
    /\ call.fn = "generate_llm_response"
    /\ Len(call.history) = 2
    /\ call.prompt = 2
    /\ call.context # <<>>
    /\ Len(call.res.messages) = 4
    /\ call.res.messages[1].kind = "grounded"
    /\ call.res.messages[4].body = <<2>>

\* C12 (as claimed): for every model response, when the classifier reports
\* that clarification is needed it returns a list of 3 or 4 questions, each a
\* non-empty text; otherwise it returns no questions.
C12_VerdictShape ==
    call.fn = "generate_clarifying_questions" =>
        IF call.res.ret = "questions"
        THEN /\ call.res.q.type = "list"
             /\ call.res.q.len \in 3..4
             /\ ~call.res.q.blank
        ELSE call.res.q = NoQuestions

\* The file types the application accepts.
AllowedTypes == {"pdf", "txt", "docx", "odt"}

\* The handler has just run on a file of a disallowed type, or on a file of
\* an allowed type from which the loader extracts no content.
DisallowedOrEmptyUpload ==
    /\ last'.op = "upload"
    /\ \/ last'.file_type \notin AllowedTypes \cup {NoFile.ext}
       \/ last'.content = "empty"

\* C13 (as claimed): an upload of a disallowed file type or an empty upload
\* is rejected before any index operation: no delete and no add is made for
\* the chat, and the table's rows and the vector store bound to the session
\* stay as they were.
C13_RejectedBeforeIndex ==
    [][DisallowedOrEmptyUpload =>
          /\ last'.deletes = 0
          /\ last'.adds = 0
          /\ hana' = hana
          /\ vector_store' = vector_store]_vars

\* C11 (as claimed): in every turn the document_is_loaded flag the classifier
\* is given is true exactly when a vector store is bound for the current chat
\* at the moment the question is classified.
C11_FlagMatchesState ==
    last.op = "turn" =>
        (last.document_is_loaded <=> last.vector_store # "None")

-----------------------------------------------------------------------------
(* Properties of the history file (SpecHistory).                           *)

\* C16 (as claimed): after any sequence of create_new_chat and save_message
\* calls, including calls during which the file cannot be read or parsed, a
\* save_message call that writes the file appends exactly one message at the
\* end of its chat's messages and leaves the earlier messages of that chat
\* and the messages of every other chat unchanged.
C16_AppendOnly ==
    (call.fn = "save_message" /\ call.io.save = "ok") =>
        /\ LogOf(history_file, call.chat_id) =
              Append(LogOf(call.file, call.chat_id), call.message)
        /\ \A c \in DOMAIN call.file \ {call.chat_id} :
              /\ c \in DOMAIN history_file
              /\ history_file[c] = call.file[c]

=============================================================================
